---- MODULE Spec2Model ----
(***************************************************************************)
(* Underwater detection system: the Gradio application                     *)
(* src/app_simple_professional.py (model registry, detect_objects, the     *)
(* annotation and summary helpers, the bounded detection history).         *)
(*                                                                         *)
(* Conventions                                                             *)
(*   - Python None is the string "None" where the value is otherwise a     *)
(*     string, and the empty tuple <<>> where it is otherwise a sequence.  *)
(*   - Floats are integers in hundredths (confidence 0.25 is 25, an        *)
(*     inference time of 0.12 s is 12).                                    *)
(*   - A Python dict is a TLA+ function; a dict whose iteration order      *)
(*     matters is a sequence of <<key, value>> pairs in insertion order.   *)
(***************************************************************************)
EXTENDS Integers, Sequences, FiniteSets, TLC

VARIABLES
    pc,                 \* position of the module-level code: "load", "fallback", "ready", "aborted"
    i,                  \* index of the MODEL_PATHS item the load loop is at
    models,             \* dict: model name -> loaded model handle (the weights it was built from)
    available_models,   \* list of model names
    log,                \* lines printed by the startup code
    app,                \* "none", "built" (build_app returned), "launched" (app.launch running)
    detection_history,  \* list of history entries
    made,               \* history variable: every entry ever appended, in call order
    ncalls,             \* number of detect_objects calls so far
    nvaried,            \* number of calls so far that were not the default submit
    call,               \* arguments and environment of the most recent call
    ret,                \* outcome of the most recent call
    trigger,            \* what made the most recent call: "click" (detect_btn) or "call"
    script_pc,          \* per training script: the step it is at, "done" or "failed"
    external,           \* per training script: the external calls it made, in order
    test_yaml_file,     \* test_data.yaml in the scripts' directory
    printed,            \* per training script: the lines it printed
    threads             \* per request thread: the statement of detect_objects it is at

trainVars == <<script_pc, external, test_yaml_file, printed>>

appVars == <<pc, i, models, available_models, log, app, detection_history, made,
             ncalls, nvaried, call, ret, trigger, threads>>

vars == <<pc, i, models, available_models, log, app, detection_history, made,
          ncalls, nvaried, call, ret, trigger, script_pc, external, test_yaml_file,
          printed, threads>>

None == "None"

\* request threads that can be inside detect_objects at once
MaxThreads == 2

Threads == 1..MaxThreads

\* no thread is inside detect_objects
NoThreads == [t \in Threads |-> "idle"]

----------------------------------------------------------------------------
(* Bounds of the model *)

\* calls explored by Spec
MaxCalls == 2
\* calls explored by SpecHistory: enough to evict several entries
MaxLongCalls == 53
\* calls of a SpecHistory run that may differ from the default submit
MaxVaried == 1
\* boxes in one model result
MaxBoxes == 2
\* largest class id a model returns (the generic weights know 80 classes)
MaxClassId == 8

----------------------------------------------------------------------------
(* Module-level constants of the application *)

\* MODEL_PATHS, in dict order
MODEL_PATHS ==
    << <<"YOLOv8n", "../yolov8n/runs/detect_train/weights/best.pt">>,
       <<"YOLOv8s", "../yolov8s/runs/detect_train/weights/best.pt">> >>

UNDERWATER_CLASSES ==
    <<"fish", "jellyfish", "penguin", "puffin", "shark", "starfish", "stingray">>

CLASS_COLORS ==
    [c \in {"fish", "jellyfish", "penguin", "puffin", "shark", "starfish", "stingray"} |->
        CASE c = "fish"      -> "#FF6B6B"
          [] c = "jellyfish" -> "#4ECDC4"
          [] c = "penguin"   -> "#45B7D1"
          [] c = "puffin"    -> "#96CEB4"
          [] c = "shark"     -> "#FECA57"
          [] c = "starfish"  -> "#FF9FF3"
          [] c = "stingray"  -> "#54A0FF"]

\* "Keep only last 50 detections"
HistoryCap == 50

\* defaults of detect_objects' keyword parameters
DefaultConf == 25
DefaultIou == 45

----------------------------------------------------------------------------
(* Dict and list helpers *)

\* d[k] = v on a dict
DictSet(d, k, v) == [x \in DOMAIN d \cup {k} |-> IF x = k THEN v ELSE d[x]]

\* dict.get(k, default)
DictGet(d, k, default) == IF k \in DOMAIN d THEN d[k] ELSE default

EmptyDict == [x \in {} |-> None]

Range(s) == {s[k] : k \in DOMAIN s}

----------------------------------------------------------------------------
(* Values the environment supplies *)

\* image_input holds nothing
NoImage == [name |-> None, width |-> 0, height |-> 0]

\* uploaded images (PIL images: a name for the pixel content, and the size)
Images == { [name |-> "reef.jpg", width |-> 640, height |-> 480],
            [name |-> "wreck.jpg", width |-> 1920, height |-> 1200] }

\* class ids a model can return
ClassIds == 0 .. MaxClassId

\* One box of results[0].boxes.  conf and cls are 1-element tensors, or None (<<>>);
\* xyxy holds float coordinates in tenths of a pixel.
BoxAt(k) == << 105 + 100 * k, 207, 1009 + 100 * k, 2995 >>

Boxes ==
    { [conf |-> <<c>>, cls |-> <<k>>, xyxy |-> BoxAt(k)] : c \in {35, 90}, k \in ClassIds }
    \cup { [conf |-> <<>>, cls |-> <<0>>, xyxy |-> BoxAt(0)],
           [conf |-> <<90>>, cls |-> <<>>, xyxy |-> BoxAt(0)] }

RECURSIVE SeqsUpTo(_, _)
SeqsUpTo(S, n) ==
    IF n = 0 THEN { <<>> }
    ELSE LET shorter == SeqsUpTo(S, n - 1)
         IN  shorter \cup { Append(s, x) : s \in {t \in shorter : Len(t) = n - 1}, x \in S }

\* results[0] as the model returns it: boxes is None, or a list of boxes
AllResults ==
    { [boxes_is_none |-> TRUE, boxes |-> <<>>] }
    \cup { [boxes_is_none |-> FALSE, boxes |-> b] : b \in SeqsUpTo(Boxes, MaxBoxes) }

----------------------------------------------------------------------------
(* Conversions *)

\* int(x) of a float held in tenths: truncation toward zero
IntOfTenths(x) == IF x >= 0 THEN x \div 10 ELSE - ((- x) \div 10)

Min(a, b) == IF a <= b THEN a ELSE b
Max(a, b) == IF a >= b THEN a ELSE b

\* tuple(int(color[i:i+2], 16) for i in (1, 3, 5)) on the colours the program uses
HexToRGB(color) ==
    CASE color = "#FF6B6B" -> <<255, 107, 107>>
      [] color = "#4ECDC4" -> <<78, 205, 196>>
      [] color = "#45B7D1" -> <<69, 183, 209>>
      [] color = "#96CEB4" -> <<150, 206, 180>>
      [] color = "#FECA57" -> <<254, 202, 87>>
      [] color = "#FF9FF3" -> <<255, 159, 243>>
      [] color = "#54A0FF" -> <<84, 160, 255>>
      [] color = "#FFFFFF" -> <<255, 255, 255>>
      [] color = "#888888" -> <<136, 136, 136>>

\* f"class_{class_id}"
ClassFallbackName(class_id) == "class_" \o ToString(class_id)

\* str.capitalize() on the class names that can occur
Capitalize(name) ==
    CASE name = "fish"      -> "Fish"
      [] name = "jellyfish" -> "Jellyfish"
      [] name = "penguin"   -> "Penguin"
      [] name = "puffin"    -> "Puffin"
      [] name = "shark"     -> "Shark"
      [] name = "starfish"  -> "Starfish"
      [] name = "stingray"  -> "Stingray"
      [] OTHER -> LET k == CHOOSE k \in ClassIds : name = ClassFallbackName(k)
                  IN  "Class_" \o ToString(k)

\* round(n / d) to the nearest integer, ties to even, as the ".2f" format does on a
\* value in hundredths
RoundDiv(n, d) ==
    LET q == n \div d
        r == n % d
    IN  IF 2 * r < d THEN q
        ELSE IF 2 * r > d THEN q + 1
        ELSE IF q % 2 = 0 THEN q ELSE q + 1

RECURSIVE SumConfidence(_)
SumConfidence(data) ==
    IF data = <<>> THEN 0
    ELSE data[1].confidence + SumConfidence(Tail(data))

----------------------------------------------------------------------------
(* create_visualization *)

\* ClassName numbering the unknown classes from 1
ClassNameOneBased(class_id) ==
    IF class_id < Len(UNDERWATER_CLASSES)
      THEN UNDERWATER_CLASSES[class_id + 1]
      ELSE ClassFallbackName(class_id + 1)

\* "if class_id < len(UNDERWATER_CLASSES)" (class ids are never negative)
ClassName(class_id) ==
    IF class_id < Len(UNDERWATER_CLASSES)
      THEN UNDERWATER_CLASSES[class_id + 1]
      ELSE ClassFallbackName(class_id)

\* "if box.conf is not None and box.cls is not None"
BoxUsable(box) == box.conf # <<>> /\ box.cls # <<>>

\* the detection_data item appended for one box
DetectionRecord(box) ==
    LET class_name == ClassName(box.cls[1])
    IN  [class      |-> class_name,
         confidence |-> box.conf[1],
         bbox       |-> [k \in 1..4 |-> IntOfTenths(box.xyxy[k])],
         color      |-> DictGet(CLASS_COLORS, class_name, "#FFFFFF")]

\* what is drawn on annotated_img for one box: the rectangle, the label background
\* and the label text
Drawing(image, box) ==
    LET d == DetectionRecord(box)
        thickness == Max(2, Min(image.width, image.height) \div 300)
    IN  [rect      |-> d.bbox,
         color_rgb |-> HexToRGB(d.color),
         thickness |-> thickness,
         font_thickness |-> Max(1, thickness \div 2),
         label     |-> <<d.class, d.confidence>>]

RECURSIVE DrawBoxes(_, _)
DrawBoxes(image, boxes) ==
    IF boxes = <<>> THEN <<>>
    ELSE IF BoxUsable(boxes[1])
           THEN <<Drawing(image, boxes[1])>> \o DrawBoxes(image, Tail(boxes))
           ELSE DrawBoxes(image, Tail(boxes))

RECURSIVE CollectDetections(_)
CollectDetections(boxes) ==
    IF boxes = <<>> THEN <<>>
    ELSE IF BoxUsable(boxes[1])
           THEN <<DetectionRecord(boxes[1])>> \o CollectDetections(Tail(boxes))
           ELSE CollectDetections(Tail(boxes))

\* "if detections.boxes is not None: for i, box in enumerate(detections.boxes)"
ResultBoxes(results) == IF results.boxes_is_none THEN <<>> ELSE results.boxes

\* The objects create_visualization works on.  mem.refs maps a local variable to the
\* object it refers to, mem.heap maps an object to its pixels: the picture it was
\* made from and what has been drawn on it since.
InitialMemory(image) ==
    [refs |-> [v \in {"image"} |-> "obj_image"],
     heap |-> [o \in {"obj_image"} |->
                 [name |-> image.name, width |-> image.width, height |-> image.height,
                  drawn |-> <<>>]]]

\* CopyTo binding dst to the object of src instead of to a copy of it
AliasTo(mem, dst, src) ==
    [refs |-> DictSet(mem.refs, dst, mem.refs[src]), heap |-> mem.heap]

\* dst = a new object with the pixels of src: np.array(image), img_array.copy(),
\* Image.fromarray(annotated_img)
CopyTo(mem, dst, src) ==
    [refs |-> DictSet(mem.refs, dst, "obj_" \o dst),
     heap |-> DictSet(mem.heap, "obj_" \o dst, mem.heap[mem.refs[src]])]

\* cv2.rectangle / cv2.putText on the object of var, in place
DrawOn(mem, var, drawings) ==
    [refs |-> mem.refs,
     heap |-> [mem.heap EXCEPT ![mem.refs[var]].drawn = @ \o drawings]]

\* the memory when create_visualization returns; "return" is the returned image
VisualizationMemory(image, boxes) ==
    LET m1 == CopyTo(InitialMemory(image), "img_array", "image")
        m2 == CopyTo(m1, "annotated_img", "img_array")
        m3 == DrawOn(m2, "annotated_img", DrawBoxes(image, boxes))
    IN  CopyTo(m3, "return", "annotated_img")

\* returns <<annotated image, detection_data>>; the annotated image is a new image:
\* the pixels of the input plus what was drawn
create_visualization(image, results, model_name, inference_time) ==
    LET boxes == ResultBoxes(results)
    IN  << [kind |-> "Image", name |-> image.name, width |-> image.width,
            height |-> image.height, drawn |-> DrawBoxes(image, boxes)],
           CollectDetections(boxes) >>

----------------------------------------------------------------------------
(* create_detection_summary and create_detection_chart *)

\* CountOne without the increment: "class_counts[class_name] = 1"
CountOneResets(class_counts, class_name) ==
    IF \E k \in DOMAIN class_counts : class_counts[k][1] = class_name
      THEN class_counts
      ELSE Append(class_counts, <<class_name, 1>>)

\* class_counts[class_name] = class_counts.get(class_name, 0) + 1, on a dict kept as
\* a list of <<class name, count>> in insertion order
CountOne(class_counts, class_name) ==
    IF \E k \in DOMAIN class_counts : class_counts[k][1] = class_name
      THEN [k \in DOMAIN class_counts |->
              IF class_counts[k][1] = class_name
                THEN <<class_name, class_counts[k][2] + 1>>
                ELSE class_counts[k]]
      ELSE Append(class_counts, <<class_name, 1>>)

RECURSIVE CountFrom(_, _)
CountFrom(class_counts, data) ==
    IF data = <<>> THEN class_counts
    ELSE CountFrom(CountOne(class_counts, data[1].class), Tail(data))

\* "Count detections by class"
ClassCounts(detection_data) == CountFrom(<<>>, detection_data)

Emoji(class_name) ==
    CASE class_name = "fish"      -> "tropical fish"
      [] class_name = "jellyfish" -> "jellyfish"
      [] class_name = "penguin"   -> "penguin"
      [] class_name = "puffin"    -> "eagle"
      [] class_name = "shark"     -> "shark"
      [] class_name = "starfish"  -> "star"
      [] class_name = "stingray"  -> "octopus"
      [] OTHER -> "small blue diamond"

\* the markdown text, as its parts
create_detection_summary(detection_data, model_name, inference_time) ==
    IF detection_data = <<>>
      THEN [kind |-> "No objects detected"]
      ELSE LET class_counts == ClassCounts(detection_data)
               total_detections == Len(detection_data)
           IN  [kind |-> "Detection Summary",
                model_used |-> model_name,
                inference_time |-> inference_time,
                total_objects |-> total_detections,
                average_confidence |-> RoundDiv(SumConfidence(detection_data), total_detections),
                detected_objects |->
                    [k \in DOMAIN class_counts |->
                        << Emoji(class_counts[k][1]), Capitalize(class_counts[k][1]),
                           class_counts[k][2] >>]]

\* create_detection_chart without the "if not detection_data" test
ChartWithoutEmptyTest(detection_data) ==
    LET class_counts == ClassCounts(detection_data)
    IN  [kind |-> "Bar",
         x |-> [k \in DOMAIN class_counts |-> class_counts[k][1]],
         y |-> [k \in DOMAIN class_counts |-> class_counts[k][2]],
         marker_color |-> [k \in DOMAIN class_counts |->
                             DictGet(CLASS_COLORS, class_counts[k][1], "#888888")],
         text |-> [k \in DOMAIN class_counts |-> class_counts[k][2]]]

\* the bar chart, or None
create_detection_chart(detection_data) ==
    IF detection_data = <<>>
      THEN [kind |-> None]
      ELSE LET class_counts == ClassCounts(detection_data)
           IN  [kind |-> "Bar",
                x |-> [k \in DOMAIN class_counts |-> class_counts[k][1]],
                y |-> [k \in DOMAIN class_counts |-> class_counts[k][2]],
                marker_color |-> [k \in DOMAIN class_counts |->
                                    DictGet(CLASS_COLORS, class_counts[k][1], "#888888")],
                text |-> [k \in DOMAIN class_counts |-> class_counts[k][2]]]

----------------------------------------------------------------------------
(* The training scripts *)

\* 1: train_and_test_yolov8.py, 2: train_test_yolov8s.py
Scripts == {1, 2}

\* os.path.dirname(__file__): both scripts are in the same directory
ScriptDir == "<dirname>"

\* os.path.abspath(os.path.join(os.path.dirname(__file__), name))
PathOf(name) == <<ScriptDir, name>>

\* the literals of train_and_test_yolov8.py
TrainAndTest ==
    [DATA_YAML |-> "data.yaml", MODEL |-> "yolov8s.pt", EPOCHS |-> 100, IMG_SIZE |-> 640,
     DEVICE |-> 0,
     train_extra |-> [patience |-> 10, degrees |-> 10, scale |-> "0.5", shear |-> 2,
                      perspective |-> "0.001", flipud |-> "0.5", fliplr |-> "0.5",
                      hsv_h |-> "0.015", hsv_s |-> "0.7", hsv_v |-> "0.4",
                      mosaic |-> "1.0", mixup |-> "0.2"],
     test_yaml |-> [path |-> PathOf("test"), train |-> "", val |-> "images", nc |-> 7,
                    names |-> <<"fish", "jellyfish", "penguin", "puffin", "shark",
                                "starfish", "stingray">>]]

\* the literals of train_test_yolov8s.py
TrainTestS ==
    [DATA_YAML |-> "data.yaml", MODEL |-> "yolov8s.pt", EPOCHS |-> 100, IMG_SIZE |-> 640,
     DEVICE |-> 0,
     train_extra |-> [batch |-> 16],
     test_yaml |-> [path |-> PathOf("test"), train |-> "", val |-> "images", nc |-> 7,
                    names |-> <<"fish", "jellyfish", "penguin", "puffin", "shark",
                                "starfish", "stingray">>]]

\* Literals with two names of the second script's label map exchanged
LiteralsNamesSwapped(s) ==
    IF s = 1 THEN TrainAndTest
    ELSE [TrainTestS EXCEPT !.test_yaml.names =
             <<"fish", "jellyfish", "penguin", "puffin", "starfish", "shark", "stingray">>]

\* Literals with the second script validating at another image size
LiteralsOtherImgSize(s) ==
    IF s = 1 THEN TrainAndTest ELSE [TrainTestS EXCEPT !.IMG_SIZE = 320]

Literals(s) == IF s = 1 THEN TrainAndTest ELSE TrainTestS

\* the statements both scripts have, in program order
CommonSteps ==
    <<"YOLO", "train", "val", "print_val", "predict", "print_complete",
      "open", "dump", "close", "test_val", "print_test">>

\* StepsOf with the test validation inside the with block
StepsValInsideWith(s) ==
    (IF s = 1 THEN <<"cuda">> ELSE <<>>) \o
    <<"YOLO", "train", "val", "print_val", "predict", "print_complete",
      "open", "dump", "test_val", "close", "print_test">>

\* main() of script s: the first script starts with the CUDA report
StepsOf(s) == (IF s = 1 THEN <<"cuda">> ELSE <<>>) \o CommonSteps

Failed == 0
Done(s) == Len(StepsOf(s)) + 1
Running(s) == script_pc[s] \in 2..Len(StepsOf(s))

\* script s is at statement name; the scripts are run one after the other
At(s, name) ==
    /\ \A t \in Scripts \ {s} : ~Running(t)
    /\ script_pc[s] \in DOMAIN StepsOf(s)
    /\ StepsOf(s)[script_pc[s]] = name

Advance(s) == script_pc' = [script_pc EXCEPT ![s] = @ + 1]
Raise(s) == script_pc' = [script_pc EXCEPT ![s] = Failed]
Calls(s, calls) == external' = [external EXCEPT ![s] = @ \o calls]
Prints(s, lines) == printed' = [printed EXCEPT ![s] = @ \o lines]
ExternalCall(op, args) == [op |-> op, args |-> args]

\* an external call returns or raises; a raise ends the script with a traceback
Outcomes == {"returns", "raises"}
Continue(s, outcome) == IF outcome = "returns" THEN Advance(s) ELSE Raise(s)

\* run date, as datetime.now().strftime('%Y%m%d')
Dates == {"20250101", "20250102"}

\* box.map50 in hundredths, when the results have the attribute
Map50s == {0, 85}

\* f"{map50*100:.2f}" for map50 in hundredths
FormatMap(map50) == ToString(map50) \o ".00"

\* what the try block around the mAP50 print leaves on the output
MapLine(prefix, failure, has_map50, map50) ==
    IF has_map50 THEN prefix \o FormatMap(map50) \o " out of 100" ELSE failure

\* dict a updated with dict b (keyword arguments written one after the other)
Kwargs(a, b) ==
    [k \in DOMAIN a \cup DOMAIN b |-> IF k \in DOMAIN b THEN b[k] ELSE a[k]]

\* neither script has started
TrainInit ==
    /\ script_pc = [s \in Scripts |-> 1]
    /\ external = [s \in Scripts |-> <<>>]
    /\ test_yaml_file = [state |-> "absent", content |-> <<>>]
    /\ printed = [s \in Scripts |-> <<>>]

\* print("CUDA available:", ...); print("Using GPU:", ...) or print("Using CPU")
CudaReport(s) ==
    /\ At(s, "cuda")
    /\ \E available \in BOOLEAN :
          /\ Calls(s, <<ExternalCall("torch.cuda.is_available", <<>>),
                        ExternalCall("torch.cuda.is_available", <<>>)>>
                      \o (IF available
                            THEN <<ExternalCall("torch.cuda.get_device_name", <<0>>)>>
                            ELSE <<>>))
          /\ Prints(s, IF available
                         THEN <<"CUDA available: True", "Using GPU: <device name>">>
                         ELSE <<"CUDA available: False", "Using CPU">>)
    /\ Advance(s)
    /\ UNCHANGED <<appVars, test_yaml_file>>

\* model = YOLO(MODEL)
LoadWeights(s) ==
    /\ At(s, "YOLO")
    /\ Calls(s, <<ExternalCall("YOLO", <<Literals(s).MODEL>>)>>)
    /\ \E outcome \in Outcomes : Continue(s, outcome)
    /\ UNCHANGED <<appVars, test_yaml_file, printed>>

\* results = model.train(...)
Train(s) ==
    /\ At(s, "train")
    /\ Calls(s, <<ExternalCall("model.train",
                    Kwargs([data |-> Literals(s).DATA_YAML, epochs |-> Literals(s).EPOCHS,
                            imgsz |-> Literals(s).IMG_SIZE, project |-> "runs",
                            name |-> "detect_train", exist_ok |-> TRUE,
                            device |-> Literals(s).DEVICE],
                           Literals(s).train_extra))>>)
    /\ \E outcome \in Outcomes : Continue(s, outcome)
    /\ UNCHANGED <<appVars, test_yaml_file, printed>>

\* val_results = model.val(...)
Validate(s) ==
    /\ At(s, "val")
    /\ Calls(s, <<ExternalCall("model.val",
                    [data |-> Literals(s).DATA_YAML, imgsz |-> Literals(s).IMG_SIZE,
                     project |-> "runs", name |-> "detect_val", exist_ok |-> TRUE,
                     device |-> Literals(s).DEVICE])>>)
    /\ \E outcome \in Outcomes : Continue(s, outcome)
    /\ UNCHANGED <<appVars, test_yaml_file, printed>>

\* try: print(f"Validation mAP50: ...") except Exception: print("Could not extract ...")
PrintValMap(s) ==
    /\ At(s, "print_val")
    /\ \E has_map50 \in BOOLEAN, map50 \in Map50s :
          Prints(s, <<MapLine("Validation mAP50: ",
                              "Could not extract mAP50 from validation results.",
                              has_map50, map50)>>)
    /\ Advance(s)
    /\ UNCHANGED <<appVars, test_yaml_file, external>>

\* predict_results = model.predict(...), into predicted_images_<date>
Predict(s) ==
    /\ At(s, "predict")
    /\ \E timestamp \in Dates :
          Calls(s, <<ExternalCall("model.predict",
                       [source |-> PathOf("test/images"), save |-> TRUE,
                        project |-> PathOf("predicted_images_" \o timestamp),
                        name |-> "", exist_ok |-> TRUE, device |-> Literals(s).DEVICE])>>)
    /\ \E outcome \in Outcomes : Continue(s, outcome)
    /\ UNCHANGED <<appVars, test_yaml_file, printed>>

\* print('Training, validation, and prediction complete!'); print('Predictions saved to ...')
PrintComplete(s) ==
    /\ At(s, "print_complete")
    /\ Prints(s, <<"Training, validation, and prediction complete!",
                   "Predictions saved to: "
                     \o external[s][Len(external[s])].args.project[2]>>)
    /\ Advance(s)
    /\ UNCHANGED <<appVars, test_yaml_file, external>>

\* with open(test_yaml_path, 'w') as f: the file is created or truncated
OpenYaml(s) ==
    /\ At(s, "open")
    /\ Calls(s, <<ExternalCall("open", <<PathOf("test_data.yaml"), "w">>)>>)
    /\ \E outcome \in Outcomes :
          /\ Continue(s, outcome)
          /\ test_yaml_file' = IF outcome = "returns"
                                 THEN [state |-> "open", content |-> <<>>]
                                 ELSE test_yaml_file
    /\ UNCHANGED <<appVars, printed>>

\* yaml.dump(test_yaml, f); leaving the with block on a raise closes the file
DumpYaml(s) ==
    /\ At(s, "dump")
    /\ Calls(s, <<ExternalCall("yaml.dump", <<Literals(s).test_yaml>>)>>)
    /\ \E outcome \in Outcomes :
          /\ Continue(s, outcome)
          /\ test_yaml_file' = IF outcome = "returns"
                                 THEN [state |-> "open",
                                       content |-> <<Literals(s).test_yaml>>]
                                 ELSE [test_yaml_file EXCEPT !.state = "closed"]
    /\ UNCHANGED <<appVars, printed>>

\* the end of the with block
CloseYaml(s) ==
    /\ At(s, "close")
    /\ test_yaml_file' = [test_yaml_file EXCEPT !.state = "closed"]
    /\ Advance(s)
    /\ UNCHANGED <<appVars, external, printed>>

\* test_val_results = model.val(data=test_yaml_path, ...)
TestValidate(s) ==
    /\ At(s, "test_val")
    /\ Calls(s, <<ExternalCall("model.val",
                    [data |-> PathOf("test_data.yaml"), imgsz |-> Literals(s).IMG_SIZE,
                     project |-> "runs", name |-> "detect_test_val", exist_ok |-> TRUE,
                     device |-> Literals(s).DEVICE])>>)
    /\ \E outcome \in Outcomes : Continue(s, outcome)
    /\ UNCHANGED <<appVars, test_yaml_file, printed>>

\* try: print(f"Test set mAP50: ...") except Exception: print("Could not extract ...")
PrintTestMap(s) ==
    /\ At(s, "print_test")
    /\ \E has_map50 \in BOOLEAN, map50 \in Map50s :
          Prints(s, <<MapLine("Test set mAP50: ",
                              "Could not extract mAP50 from test set validation results.",
                              has_map50, map50)>>)
    /\ Advance(s)
    /\ UNCHANGED <<appVars, test_yaml_file, external>>

----------------------------------------------------------------------------
(* Startup: the module-level code that fills the model registry *)

Init ==
    /\ pc = "load"
    /\ i = 1
    /\ models = EmptyDict
    /\ available_models = <<>>
    /\ log = <<>>
    /\ app = "none"
    /\ detection_history = <<>>
    /\ made = <<>>
    /\ ncalls = 0
    /\ nvaried = 0
    /\ call = [fn |-> "none"]
    /\ ret = [kind |-> "none"]
    /\ trigger = "none"
    /\ TrainInit
    /\ threads = NoThreads

\* LoadIteration with available_models.append(model_name) ahead of the try block
LoadIterationAppendFirst(exists, loads) ==
    LET model_name == MODEL_PATHS[i][1]
        model_path == MODEL_PATHS[i][2]
    IN  /\ IF exists
             THEN /\ available_models' = Append(available_models, model_name)
                  /\ IF loads
                       THEN /\ models' = DictSet(models, model_name, model_path)
                            /\ log' = Append(log, <<"loaded", model_name>>)
                       ELSE /\ log' = Append(log, <<"failed", model_name>>)
                            /\ UNCHANGED models
             ELSE /\ log' = Append(log, <<"not found", model_name>>)
                  /\ UNCHANGED <<models, available_models>>
        /\ IF i < Len(MODEL_PATHS)
             THEN i' = i + 1 /\ pc' = pc
             ELSE i' = i /\ pc' = "fallback"

\* One iteration of "for model_name, model_path in MODEL_PATHS.items()".
\* exists is os.path.exists(model_path); loads is whether YOLO(model_path) returns
\* rather than raises.
LoadIteration(exists, loads) ==
    LET model_name == MODEL_PATHS[i][1]
        model_path == MODEL_PATHS[i][2]
    IN  /\ IF exists
             THEN IF loads
                    THEN /\ models' = DictSet(models, model_name, model_path)
                         /\ available_models' = Append(available_models, model_name)
                         /\ log' = Append(log, <<"loaded", model_name>>)
                    ELSE /\ log' = Append(log, <<"failed", model_name>>)
                         /\ UNCHANGED <<models, available_models>>
             ELSE /\ log' = Append(log, <<"not found", model_name>>)
                  /\ UNCHANGED <<models, available_models>>
        /\ IF i < Len(MODEL_PATHS)
             THEN i' = i + 1 /\ pc' = pc
             ELSE i' = i /\ pc' = "fallback"

LoadModel ==
    /\ pc = "load"
    /\ \E exists \in BOOLEAN, loads \in BOOLEAN : LoadIteration(exists, loads)
    /\ UNCHANGED <<app, detection_history, made, ncalls, nvaried, call, ret, trigger>>
    /\ UNCHANGED <<trainVars, threads>>

\* NeedsFallback as "some custom model is missing"
NeedsFallbackUnlessAll == Len(available_models) < Len(MODEL_PATHS)

\* "if not available_models"
NeedsFallback == available_models = <<>>

\* The fallback block.  loadsN / loadsS: whether YOLO("yolov8n.pt") / YOLO("yolov8s.pt")
\* returns rather than raises; the block has no try, so a raise ends the module's
\* execution with what was assigned before it.
FallbackBlock(loadsN, loadsS) ==
    IF NeedsFallback
      THEN IF ~loadsN
             THEN /\ pc' = "aborted"
                  /\ UNCHANGED <<models, available_models, log>>
             ELSE IF ~loadsS
                    THEN /\ pc' = "aborted"
                         /\ models' = DictSet(models, "YOLOv8n", "yolov8n.pt")
                         /\ UNCHANGED <<available_models, log>>
                    ELSE /\ pc' = "ready"
                         /\ models' = DictSet(DictSet(models, "YOLOv8n", "yolov8n.pt"),
                                              "YOLOv8s", "yolov8s.pt")
                         /\ available_models' = <<"YOLOv8n", "YOLOv8s">>
                         /\ log' = Append(log, <<"default", "YOLO">>)
      ELSE /\ pc' = "ready"
           /\ UNCHANGED <<models, available_models, log>>

Fallback ==
    /\ pc = "fallback"
    /\ \E loadsN \in BOOLEAN, loadsS \in BOOLEAN : FallbackBlock(loadsN, loadsS)
    /\ UNCHANGED <<i, app, detection_history, made, ncalls, nvaried, call, ret, trigger>>
    /\ UNCHANGED <<trainVars, threads>>

\* build_app(): constructs the page; the dropdown's choices are available_models
BuildApp ==
    /\ pc = "ready"
    /\ app = "none"
    /\ app' = "built"
    /\ UNCHANGED <<pc, i, models, available_models, log, detection_history, made,
                   ncalls, nvaried, call, ret, trigger>>
    /\ UNCHANGED <<trainVars, threads>>

\* app.launch(...)
Launch ==
    /\ pc = "ready"
    /\ app = "built"
    /\ app' = "launched"
    /\ UNCHANGED <<pc, i, models, available_models, log, detection_history, made,
                   ncalls, nvaried, call, ret, trigger>>
    /\ UNCHANGED <<trainVars, threads>>

----------------------------------------------------------------------------
(* detect_objects and get_detection_history *)

\* AppendEntry as detection_history.insert(0, entry)
AppendEntryFront(history, entry) == <<entry>> \o history

\* detection_history.append(entry)
AppendEntry(history, entry) == Append(history, entry)

\* KeepLast with the test off by one: "if len(detection_history) > 51"
KeepLastLoose(history) == IF Len(history) > HistoryCap + 1 THEN Tail(history) ELSE history

\* KeepLast evicting with pop() instead of pop(0)
KeepLastPopNewest(history) ==
    IF Len(history) > HistoryCap THEN SubSeq(history, 1, Len(history) - 1) ELSE history

\* "if len(detection_history) > 50: detection_history.pop(0)"
KeepLast(history) == IF Len(history) > HistoryCap THEN Tail(history) ELSE history

\* HistoryEntry with len(detection_history) for len(detection_data)
HistoryEntryLenHistory(timestamp, model_choice, detection_data, inference_time) ==
    [timestamp      |-> timestamp,
     model          |-> model_choice,
     detections     |-> Len(detection_history),
     inference_time |-> inference_time,
     objects        |-> detection_data]

\* the dict appended to detection_history
HistoryEntry(timestamp, model_choice, detection_data, inference_time) ==
    [timestamp      |-> timestamp,
     model          |-> model_choice,
     detections     |-> Len(detection_data),
     inference_time |-> inference_time,
     objects        |-> detection_data]

PyNone == [kind |-> None]

\* ImageMissing with the check left out
ImageMissingNever(image) == FALSE

\* "if image is None"
ImageMissing(image) == image = NoImage

\* "if model_choice not in models"
ModelUnavailable(model_choice) == model_choice \notin DOMAIN models

\* RegistryAfterCall of a detect_objects that registers the weights of a choice it
\* does not know
RegistryLazyLoad(model_choice) ==
    IF model_choice \in DOMAIN models THEN models
    ELSE DictSet(models, model_choice, "yolov8m.pt")

\* the registry after a call: "model = models[model_choice]" reads the dict, and no
\* statement of detect_objects assigns to models or available_models
RegistryAfterCall(model_choice) == models

\* RaisesBeforeAppend of a detect_objects that updates the history before it creates
\* the chart
RaisesBeforeAppendNotChart(fault) == fault \in {"model", "visualization", "summary"}

\* the steps that can raise all precede "Add to history": the model call, the
\* visualization, the summary and the chart
RaisesBeforeAppend(fault) == fault \in {"model", "visualization", "summary", "chart"}

\* ModelCall with the two thresholds swapped
ModelCallSwapped(model_choice, confidence_threshold, iou_threshold) ==
    [model |-> models[model_choice], conf |-> iou_threshold, iou |-> confidence_threshold]

\* "model(image, conf=confidence_threshold, iou=iou_threshold)"
ModelCall(model_choice, confidence_threshold, iou_threshold) ==
    [model |-> models[model_choice], conf |-> confidence_threshold, iou |-> iou_threshold]

\* "return None, "Please upload an image", None, """
ReturnNoImage ==
    << PyNone, [kind |-> "Please upload an image"], PyNone, [kind |-> ""] >>

\* "return None, f"Model {model_choice} not available", None, """
ReturnNotAvailable(model_choice) ==
    << PyNone, [kind |-> "Model not available", model |-> model_choice], PyNone,
       [kind |-> ""] >>

\* "return annotated_image, summary, f"Detection completed in {inference_time:.2f}s""
ReturnDetection(annotated_image, summary, inference_time) ==
    << annotated_image, summary,
       [kind |-> "Detection completed", inference_time |-> inference_time] >>

\* The environment of one call: env.fault is the step of detect_objects that raises
\* ("none", "model", "visualization", "summary", "chart"), env.results is results[0]
\* as the model returns it, env.inference_time the measured time, env.timestamp the
\* formatted datetime.now().
\* ret' records the returned tuple (or the exception), the model invocations made and,
\* when the call got that far, the local variable chart.
detect_objects(image, model_choice, confidence_threshold, iou_threshold, env) ==
    /\ call' = [fn |-> "detect_objects", image |-> image, model_choice |-> model_choice,
                confidence_threshold |-> confidence_threshold,
                iou_threshold |-> iou_threshold]
    /\ ncalls' = ncalls + 1
    /\ models' = RegistryAfterCall(model_choice)
    /\ UNCHANGED available_models
    /\ IF ImageMissing(image)
         THEN /\ ret' = [kind |-> "return", value |-> ReturnNoImage, invoked |-> <<>>]
              /\ UNCHANGED <<detection_history, made>>
         ELSE IF ModelUnavailable(model_choice)
           THEN /\ ret' = [kind |-> "return", value |-> ReturnNotAvailable(model_choice),
                           invoked |-> <<>>]
                /\ UNCHANGED <<detection_history, made>>
           ELSE LET invocation == ModelCall(model_choice, confidence_threshold,
                                            iou_threshold)
                    viz == create_visualization(image, env.results, model_choice,
                                                env.inference_time)
                    annotated_image == viz[1]
                    detection_data == viz[2]
                    summary == create_detection_summary(detection_data, model_choice,
                                                        env.inference_time)
                    chart == create_detection_chart(detection_data)
                    entry == HistoryEntry(env.timestamp, model_choice, detection_data,
                                          env.inference_time)
                IN  IF env.fault # "none"
                      THEN /\ ret' = [kind |-> "raise", value |-> <<[kind |-> env.fault]>>,
                                      invoked |-> <<invocation>>]
                           /\ IF RaisesBeforeAppend(env.fault)
                                THEN UNCHANGED <<detection_history, made>>
                                ELSE /\ detection_history' =
                                           KeepLast(AppendEntry(detection_history, entry))
                                     /\ made' = Append(made, entry)
                      ELSE /\ detection_history' =
                                  KeepLast(AppendEntry(detection_history, entry))
                           /\ made' = Append(made, entry)
                           /\ ret' = [kind |-> "return",
                                      value |-> ReturnDetection(annotated_image, summary,
                                                                env.inference_time),
                                      invoked |-> <<invocation>>,
                                      chart |-> chart]

\* LastTenReversed without reversed()
LastTenInOrder(history) ==
    LET n == Min(10, Len(history))
    IN  [k \in 1..n |-> history[Len(history) - n + k]]

\* detection_history[-10:], reversed
LastTenReversed(history) ==
    LET n == Min(10, Len(history))
    IN  [k \in 1..n |-> history[Len(history) - k + 1]]

get_detection_history ==
    /\ call' = [fn |-> "get_detection_history"]
    /\ ret' = [kind |-> "return",
               value |-> IF detection_history = <<>>
                           THEN [kind |-> "No detection history available."]
                           ELSE LET shown == LastTenReversed(detection_history)
                                IN  [kind |-> "Detection History",
                                     lines |-> [k \in DOMAIN shown |->
                                                 [n |-> k,
                                                  timestamp |-> shown[k].timestamp,
                                                  model |-> shown[k].model,
                                                  objects |-> shown[k].detections,
                                                  time |-> shown[k].inference_time]]],
               invoked |-> <<>>]
    /\ UNCHANGED <<models, available_models, detection_history, made, ncalls>>

----------------------------------------------------------------------------
(* The calls explored *)

Reef == [name |-> "reef.jpg", width |-> 640, height |-> 480]

Fish90 == [conf |-> <<90>>, cls |-> <<0>>, xyxy |-> BoxAt(0)]
Shark35 == [conf |-> <<35>>, cls |-> <<4>>, xyxy |-> BoxAt(4)]

NoDetections == [boxes_is_none |-> FALSE, boxes |-> <<>>]
OneFish == [boxes_is_none |-> FALSE, boxes |-> <<Fish90>>]
FishAndShark == [boxes_is_none |-> FALSE, boxes |-> <<Fish90, Shark35>>]

\* a model choice that is no key of MODEL_PATHS
UnknownModel == "YOLOv8m"

ModelChoices == {MODEL_PATHS[k][1] : k \in DOMAIN MODEL_PATHS} \cup {UnknownModel}

\* values of conf_slider the model explores (minimum, default, maximum)
SliderValues == {10, 25, 100}

Env(fault, results, inference_time, timestamp) ==
    [fault |-> fault, results |-> results, inference_time |-> inference_time,
     timestamp |-> timestamp]

\* the environment of the default submit
DefaultEnv == Env("none", OneFish, 12, "2025-01-01 10:00:00")

Envs ==
    { Env("none", r, 12, "2025-01-01 10:00:00") : r \in {NoDetections, OneFish, FishAndShark} }
    \cup { Env("model", NoDetections, 0, None) }

\* iou thresholds a caller passes: the default, and another one
CallerIous == {DefaultIou, 70}

\* detect_objects called as a function, by any caller
DirectCall ==
    /\ pc = "ready"
    /\ ncalls < MaxCalls
    /\ \E image \in {NoImage, Reef}, model_choice \in ModelChoices, iou \in CallerIous,
          env \in Envs :
          detect_objects(image, model_choice, DefaultConf, iou, env)
    /\ trigger' = "call"
    /\ UNCHANGED <<pc, i, log, app, nvaried>>
    /\ UNCHANGED <<trainVars, threads>>

\* fn(*inputs) of detect_btn.click: the three input values are the three leading
\* arguments, so iou_threshold takes its default
ClickDetect(image_input, model_dropdown, conf_slider, env) ==
    detect_objects(image_input, model_dropdown, conf_slider, DefaultIou, env)

\* detect_btn.click: inputs image_input, model_dropdown, conf_slider
Submit ==
    /\ app = "launched"
    /\ ncalls < MaxCalls
    /\ \E image \in {NoImage, Reef}, k \in DOMAIN available_models,
          conf \in SliderValues, env \in Envs :
          ClickDetect(image, available_models[k], conf, env)
    /\ trigger' = "click"
    /\ UNCHANGED <<pc, i, log, app, nvaried>>
    /\ UNCHANGED <<trainVars, threads>>

GetHistory ==
    /\ pc = "ready"
    /\ get_detection_history
    /\ trigger' = "call"
    /\ UNCHANGED <<pc, i, log, app, nvaried>>
    /\ UNCHANGED <<trainVars, threads>>

Next == LoadModel \/ Fallback \/ BuildApp \/ Launch \/ DirectCall \/ Submit \/ GetHistory

Spec == Init /\ [][Next]_vars

----------------------------------------------------------------------------
(* Long runs of the launched application: the default submit repeated, with at most
   MaxVaried calls that differ from it *)

InitServing ==
    /\ pc = "ready"
    /\ i = Len(MODEL_PATHS)
    /\ models = [n \in {"YOLOv8n", "YOLOv8s"} |->
                    IF n = "YOLOv8n" THEN MODEL_PATHS[1][2] ELSE MODEL_PATHS[2][2]]
    /\ available_models = <<"YOLOv8n", "YOLOv8s">>
    /\ log = << <<"loaded", "YOLOv8n">>, <<"loaded", "YOLOv8s">> >>
    /\ app = "launched"
    /\ detection_history = <<>>
    /\ made = <<>>
    /\ ncalls = 0
    /\ nvaried = 0
    /\ call = [fn |-> "none"]
    /\ ret = [kind |-> "none"]
    /\ trigger = "none"
    /\ TrainInit
    /\ threads = NoThreads

\* the submit a user makes who uploads an image and changes no control
DefaultSubmit ==
    /\ app = "launched"
    /\ ncalls < MaxLongCalls
    /\ ClickDetect(Reef, available_models[1], DefaultConf, DefaultEnv)
    /\ trigger' = "click"
    /\ UNCHANGED <<pc, i, log, app, nvaried>>
    /\ UNCHANGED <<trainVars, threads>>

VariedEnvs ==
    { Env("none", FishAndShark, 31, "2025-01-01 10:00:07") }
    \cup { Env(f, NoDetections, 0, None) : f \in {"model", "visualization", "summary", "chart"} }

\* any other call
VariedCall ==
    /\ app = "launched"
    /\ ncalls < MaxLongCalls
    /\ nvaried < MaxVaried
    /\ nvaried' = nvaried + 1
    /\ \E image \in {NoImage, Reef}, model_choice \in ModelChoices, env \in VariedEnvs :
          \* one call per early return, and the other models only on a successful call
          /\ image = NoImage => (model_choice = available_models[1] /\ env.fault = "model")
          /\ model_choice # available_models[1] => env.fault = IF model_choice \in DOMAIN models THEN "none" ELSE "model"
          /\ detect_objects(image, model_choice, DefaultConf, DefaultIou, env)
          /\ trigger' = IF model_choice = UnknownModel THEN "call" ELSE "click"
    /\ UNCHANGED <<pc, i, log, app>>
    /\ UNCHANGED <<trainVars, threads>>

ReadHistory ==
    /\ app = "launched"
    /\ get_detection_history
    /\ trigger' = "call"
    /\ UNCHANGED <<pc, i, log, app, nvaried>>
    /\ UNCHANGED <<trainVars, threads>>

\* the two training scripts, run from the command line
NextTrain ==
    \E s \in Scripts :
        \/ CudaReport(s)
        \/ LoadWeights(s)
        \/ Train(s)
        \/ Validate(s)
        \/ PrintValMap(s)
        \/ Predict(s)
        \/ PrintComplete(s)
        \/ OpenYaml(s)
        \/ DumpYaml(s)
        \/ CloseYaml(s)
        \/ TestValidate(s)
        \/ PrintTestMap(s)

SpecTrain == Init /\ [][NextTrain]_vars

NextHistory == DefaultSubmit \/ VariedCall

SpecHistory == InitServing /\ [][NextHistory]_vars

----------------------------------------------------------------------------
(* detect_objects run by several request threads, one history statement at a time *)

\* "len(detection_history) > 50"
OverCap(history) == Len(history) > HistoryCap

\* "detection_history.pop(0)"
PopOldest(history) == Tail(history)

Goto(t, stmt) == threads' = [threads EXCEPT ![t] = stmt]

\* thread t enters detect_objects for a default submit and runs it up to "Add to
\* history": the two tests, the model call, the visualization, summary and chart
EnterDetect(t) ==
    /\ app = "launched"
    /\ ncalls < MaxLongCalls
    /\ threads[t] = "idle"
    /\ ~ImageMissing(Reef)
    /\ ~ModelUnavailable(available_models[1])
    /\ call' = [fn |-> "detect_objects", image |-> Reef,
                model_choice |-> available_models[1],
                confidence_threshold |-> DefaultConf, iou_threshold |-> DefaultIou]
    /\ ncalls' = ncalls + 1
    /\ trigger' = "click"
    /\ Goto(t, "append")
    /\ UNCHANGED <<pc, i, models, available_models, log, app, detection_history, made,
                   nvaried, ret, trainVars>>

\* detection_history.append({...})
AppendStatement(t) ==
    /\ threads[t] = "append"
    /\ LET detection_data ==
               create_visualization(Reef, DefaultEnv.results, available_models[1],
                                    DefaultEnv.inference_time)[2]
           entry == HistoryEntry(DefaultEnv.timestamp, available_models[1],
                                 detection_data, DefaultEnv.inference_time)
       IN  /\ detection_history' = AppendEntry(detection_history, entry)
           /\ made' = Append(made, entry)
    /\ Goto(t, "test")
    /\ UNCHANGED <<pc, i, models, available_models, log, app, ncalls, nvaried, call, ret,
                   trigger, trainVars>>

\* "if len(detection_history) > 50:"
TestStatement(t) ==
    /\ threads[t] = "test"
    /\ Goto(t, IF OverCap(detection_history) THEN "pop" ELSE "return")
    /\ UNCHANGED <<pc, i, models, available_models, log, app, detection_history, made,
                   ncalls, nvaried, call, ret, trigger, trainVars>>

\* "detection_history.pop(0)"
PopStatement(t) ==
    /\ threads[t] = "pop"
    /\ detection_history' = PopOldest(detection_history)
    /\ Goto(t, "return")
    /\ UNCHANGED <<pc, i, models, available_models, log, app, made, ncalls, nvaried,
                   call, ret, trigger, trainVars>>

\* "return annotated_image, summary, ..."
ReturnStatement(t) ==
    /\ threads[t] = "return"
    /\ LET viz == create_visualization(Reef, DefaultEnv.results, available_models[1],
                                       DefaultEnv.inference_time)
       IN  ret' = [kind |-> "return",
                   value |-> ReturnDetection(viz[1],
                                create_detection_summary(viz[2], available_models[1],
                                                         DefaultEnv.inference_time),
                                DefaultEnv.inference_time),
                   thread |-> t]
    /\ Goto(t, "idle")
    /\ UNCHANGED <<pc, i, models, available_models, log, app, detection_history, made,
                   ncalls, nvaried, call, trigger, trainVars>>

NextInterleaved ==
    \E t \in Threads :
        \/ EnterDetect(t)
        \/ AppendStatement(t)
        \/ TestStatement(t)
        \/ PopStatement(t)
        \/ ReturnStatement(t)

SpecInterleaved == InitServing /\ [][NextInterleaved]_vars

\* the same runs, with get_detection_history called at any point
NextRead == DefaultSubmit \/ VariedCall \/ ReadHistory

SpecRead == InitServing /\ [][NextRead]_vars

----------------------------------------------------------------------------
(* The helper functions applied to every bounded model result *)

\* create_visualization about to be called on any image and any result
InitFn ==
    /\ pc = "ready"
    /\ i = Len(MODEL_PATHS)
    /\ models = [n \in {"YOLOv8n", "YOLOv8s"} |->
                    IF n = "YOLOv8n" THEN MODEL_PATHS[1][2] ELSE MODEL_PATHS[2][2]]
    /\ available_models = <<"YOLOv8n", "YOLOv8s">>
    /\ log = << <<"loaded", "YOLOv8n">>, <<"loaded", "YOLOv8s">> >>
    /\ app = "none"
    /\ detection_history = <<>>
    /\ made = <<>>
    /\ ncalls = 0
    /\ nvaried = 0
    /\ \E image \in Images, results \in AllResults :
          call = [fn |-> "create_visualization", image |-> image, results |-> results,
                  model_name |-> "YOLOv8n", inference_time |-> 12]
    /\ ret = [kind |-> "none"]
    /\ trigger = "none"
    /\ TrainInit
    /\ threads = NoThreads

FnFrame ==
    UNCHANGED <<pc, i, models, available_models, log, app, detection_history, made,
                ncalls, nvaried, trigger, script_pc, external, test_yaml_file, printed,
                threads>>

ApplyVisualization ==
    /\ call.fn = "create_visualization"
    /\ ret.kind = "none"
    /\ ret' = [kind |-> "return",
               value |-> create_visualization(call.image, call.results, call.model_name,
                                              call.inference_time),
               memory |-> VisualizationMemory(call.image, ResultBoxes(call.results))]
    /\ UNCHANGED call
    /\ FnFrame

\* detect_objects passes the detection_data it got on to the summary ...
ApplySummary ==
    /\ call.fn = "create_visualization"
    /\ ret.kind = "return"
    /\ call' = [fn |-> "create_detection_summary", detection_data |-> ret.value[2],
                model_name |-> call.model_name, inference_time |-> call.inference_time]
    /\ ret' = [kind |-> "return",
               value |-> create_detection_summary(ret.value[2], call.model_name,
                                                  call.inference_time)]
    /\ FnFrame

\* ... and to the chart
ApplyChart ==
    /\ call.fn = "create_visualization"
    /\ ret.kind = "return"
    /\ call' = [fn |-> "create_detection_chart", detection_data |-> ret.value[2]]
    /\ ret' = [kind |-> "return", value |-> create_detection_chart(ret.value[2])]
    /\ FnFrame

NextFn == ApplyVisualization \/ ApplySummary \/ ApplyChart

SpecFn == InitFn /\ [][NextFn]_vars

----------------------------------------------------------------------------
(* Properties *)

\* a step in which a detect_objects call ran and returned or raised
DetectStep == ncalls' = ncalls + 1 /\ call'.fn = "detect_objects"

\* the most recent call was detect_objects
DetectDone == ncalls > 0 /\ call.fn = "detect_objects"

Last(s) == s[Len(s)]

\* the last n items of s
LastN(s, n) == SubSeq(s, Len(s) - n + 1, Len(s))

\* C1: the detection history never holds more than 50 entries, whatever calls
\* (successful, early-returning, failing) were made.
C1_HistoryAtMostCap == Len(detection_history) <= HistoryCap

\* more than 50 calls succeeded, a varied call among them, and the buffer is full
C1_Witness ==
    /\ Len(made) > HistoryCap
    /\ Len(detection_history) = HistoryCap
    /\ nvaried > 0

\* C2: the history is the entries of the most recent min(n, 50) successful calls,
\* oldest first, and a step that evicts keeps every entry but the oldest, in order.
C2_HistoryIsFifo ==
    /\ [](detection_history = LastN(made, Min(Len(made), HistoryCap)))
    /\ [][ (Len(made') > Len(made) /\ Len(detection_history) = HistoryCap)
             => /\ Len(detection_history') = HistoryCap
                /\ SubSeq(detection_history', 1, HistoryCap - 1) = Tail(detection_history)
         ]_vars

\* two entries were evicted and the buffer holds two different entries
C2_Witness ==
    /\ Len(made) >= HistoryCap + 2
    /\ \E j, k \in DOMAIN detection_history : detection_history[j] # detection_history[k]

\* a call of detect_objects whose model invocation returned and whose later steps
\* did not raise
SuccessStep == DetectStep /\ ret'.kind = "return" /\ Len(ret'.invoked) = 1

\* C3: a successful call adds exactly one entry, at the tail, recording the call's
\* model name, detection count, inference time and detection list; no call adds more
\* than one entry.
C3_SuccessAppendsOneEntry ==
    [][ /\ Len(detection_history') <= Len(detection_history) + 1
        /\ SuccessStep =>
             LET e == Last(detection_history')
                 drawn == ret'.value[1].drawn
             IN  /\ Len(detection_history') = Min(Len(detection_history) + 1, HistoryCap)
                 /\ SubSeq(detection_history', 1, Len(detection_history') - 1)
                      = IF Len(detection_history) = HistoryCap
                          THEN Tail(detection_history) ELSE detection_history
                 /\ e.model = call'.model_choice
                 /\ e.inference_time = ret'.value[3].inference_time
                 /\ e.detections = Len(drawn)
                 /\ Len(e.objects) = Len(drawn)
                 /\ \A k \in DOMAIN drawn :
                       /\ e.objects[k].class = drawn[k].label[1]
                       /\ e.objects[k].confidence = drawn[k].label[2]
                       /\ e.objects[k].bbox = drawn[k].rect
      ]_vars

\* a successful call with two detections put its entry behind different entries
C3_Witness ==
    /\ DetectDone
    /\ ret.kind = "return" /\ Len(ret.invoked) = 1
    /\ Len(detection_history) >= 2
    /\ Last(detection_history).detections = 2
    /\ detection_history[1] # Last(detection_history)

\* C4: a call with no image, or with a model choice that is no key of the registry,
\* returns without invoking a model and leaves the history as it was.
C4_EarlyReturnKeepsHistory ==
    [][ (DetectStep /\ (call'.image = NoImage \/ call'.model_choice \notin DOMAIN models))
          => /\ ret'.kind = "return"
             /\ ret'.invoked = <<>>
             /\ detection_history' = detection_history
      ]_vars

\* an early return happened on a full buffer
C4_Witness ==
    /\ DetectDone
    /\ call.image = NoImage \/ call.model_choice \notin DOMAIN models
    /\ Len(detection_history) = HistoryCap

\* outputs=[output_image, output_summary, status_text] of detect_btn.click
ClickOutputs == <<"output_image", "output_summary", "status_text">>

\* C5: every return of detect_objects has one value per output component of the
\* submit action.
C5_ReturnMatchesOutputs ==
    (DetectDone /\ ret.kind = "return") => Len(ret.value) = Len(ClickOutputs)

\* C6: once the startup code has run, no operation changes models or
\* available_models.
C6_RegistryImmutable ==
    [][ pc = "ready" => (models' = models /\ available_models' = available_models) ]_vars

\* the application is launched and calls were made through both paths
C6_Witness ==
    /\ pc = "ready" /\ app = "launched"
    /\ ncalls = MaxCalls
    /\ DetectDone /\ call.model_choice = UnknownModel

GenericWeights == {"yolov8n.pt", "yolov8s.pt"}

\* names whose custom weights were found and loaded
CustomLoaded == { MODEL_PATHS[k][1] : k \in {j \in DOMAIN MODEL_PATHS : <<"loaded", MODEL_PATHS[j][1]>> \in Range(log)} }

FellBack == \E n \in DOMAIN models : models[n] \in GenericWeights

\* C7: when startup completes, the generic weights are registered (both of them)
\* exactly when no custom weights loaded, no generic weights are registered next to
\* custom ones, and at least one model is available.
C7_FallbackIffNoCustom ==
    pc = "ready" =>
        /\ FellBack <=> CustomLoaded = {}
        /\ FellBack => /\ DOMAIN models = {"YOLOv8n", "YOLOv8s"}
                       /\ \A n \in DOMAIN models : models[n] \in GenericWeights
                       /\ available_models = <<"YOLOv8n", "YOLOv8s">>
        /\ CustomLoaded # {} =>
              /\ DOMAIN models = CustomLoaded
              /\ \A n \in DOMAIN models : models[n] \notin GenericWeights
        /\ Len(available_models) >= 1
        /\ DOMAIN models # {}

\* startup completed on the generic weights after a custom load failed
C7_Witness ==
    /\ pc = "ready"
    /\ FellBack
    /\ \E n \in {"YOLOv8n", "YOLOv8s"} : <<"failed", n>> \in Range(log)

\* C8: a failure to load a model never aborts startup, and every model that loaded
\* stays registered and available.
C8_LoadFailureSkipped ==
    /\ pc # "aborted"
    /\ \A n \in DOMAIN models : n \in Range(available_models)

\* C9: every detection record's class name is one of the 7 fixed labels.
C9_ClassIsFixedLabel ==
    (call.fn = "create_visualization" /\ ret.kind = "return") =>
        \A k \in DOMAIN ret.value[2] : ret.value[2][k].class \in Range(UNDERWATER_CLASSES)

\* the boxes of the result with both a confidence and a class
UsableBoxes == SelectSeq(call.results.boxes, LAMBDA b : b.conf # <<>> /\ b.cls # <<>>)

\* C9 amended: a record's class name is one of the 7 fixed labels when the class id
\* is below 7, and class_<id>, which is none of them, otherwise.
C9_ClassIsLabelOrFallback ==
    (call.fn = "create_visualization" /\ ret.kind = "return") =>
        LET data == ret.value[2]
            boxes == IF call.results.boxes_is_none THEN <<>> ELSE UsableBoxes
        IN  /\ Len(data) = Len(boxes)
            /\ \A k \in DOMAIN data :
                  LET id == boxes[k].cls[1]
                  IN  IF id <= 6
                        THEN /\ data[k].class \in Range(UNDERWATER_CLASSES)
                             /\ data[k].class = UNDERWATER_CLASSES[id + 1]
                        ELSE /\ data[k].class \notin Range(UNDERWATER_CLASSES)
                             /\ data[k].class = "class_" \o ToString(id)

\* a result with a class id below 7 and one of 7 or more was visualized
C9_Witness ==
    /\ call.fn = "create_visualization" /\ ret.kind = "return"
    /\ Len(ret.value[2]) = 2
    /\ ret.value[2][1].class = "shark"
    /\ ret.value[2][2].class = "class_7"

\* C11: when a step of detect_objects raises, the exception reaches the caller and
\* the history is as it was before the call.
C11_RaiseKeepsHistory ==
    [][ (DetectStep /\ ret'.kind = "raise")
          => /\ detection_history' = detection_history
             /\ Len(ret'.invoked) = 1
             /\ ret'.value[1].kind \in {"model", "visualization", "summary", "chart"}
      ]_vars

\* the chart creation raised on a full buffer
C11_Witness ==
    /\ DetectDone
    /\ ret.kind = "raise"
    /\ ret.value[1].kind = "chart"
    /\ Len(detection_history) = HistoryCap

VisualizationDone == call.fn = "create_visualization" /\ ret.kind = "return"

\* C12: after create_visualization the input image has the pixels it had, and the
\* returned image is another object.
C12_InputImageUntouched ==
    VisualizationDone =>
        LET mem == ret.memory
        IN  /\ mem.heap[mem.refs["image"]] =
                  [name |-> call.image.name, width |-> call.image.width,
                   height |-> call.image.height, drawn |-> <<>>]
            /\ mem.refs["return"] # mem.refs["image"]
            /\ mem.heap[mem.refs["return"]].drawn = ret.value[1].drawn

\* two boxes were drawn
C12_Witness ==
    /\ VisualizationDone
    /\ Len(ret.memory.heap[ret.memory.refs["return"]].drawn) = 2

ChartDone ==
    call.fn = "create_detection_chart" /\ ret.kind = "return" /\ ret.value.kind = "Bar"

SummaryDone ==
    /\ call.fn = "create_detection_summary" /\ ret.kind = "return"
    /\ ret.value.kind = "Detection Summary"

\* C13: the colour stored in a detection record is the colour of its class's bar.
C13_RecordColourIsBarColour ==
    ChartDone =>
        \A k \in DOMAIN ret.value.x :
            \A j \in DOMAIN call.detection_data :
                call.detection_data[j].class = ret.value.x[k]
                    => call.detection_data[j].color = ret.value.marker_color[k]

\* number of records of class c
CountOfClass(data, c) == Cardinality({j \in DOMAIN data : data[j].class = c})

ClassesOf(data) == {data[j].class : j \in DOMAIN data}

RECURSIVE SumOf(_)
SumOf(counts) == IF counts = <<>> THEN 0 ELSE counts[1] + SumOf(Tail(counts))

\* C14: summary and chart list every class present exactly once with the number of its
\* records, and the counts sum to the total, the length of the list.
C14_CountsMatchRecords ==
    /\ SummaryDone =>
          LET data == call.detection_data
              lines == ret.value.detected_objects
          IN  /\ ret.value.total_objects = Len(data)
              /\ \A c \in ClassesOf(data) :
                    Cardinality({k \in DOMAIN lines : lines[k][2] = Capitalize(c)}) = 1
              /\ \A k \in DOMAIN lines :
                    \E c \in ClassesOf(data) :
                        lines[k][2] = Capitalize(c) /\ lines[k][3] = CountOfClass(data, c)
              /\ SumOf([k \in DOMAIN lines |-> lines[k][3]]) = ret.value.total_objects
    /\ ChartDone =>
          LET data == call.detection_data
          IN  /\ Len(ret.value.x) = Len(ret.value.y)
              /\ \A c \in ClassesOf(data) :
                    Cardinality({k \in DOMAIN ret.value.x : ret.value.x[k] = c}) = 1
              /\ \A k \in DOMAIN ret.value.x :
                    /\ ret.value.x[k] \in ClassesOf(data)
                    /\ ret.value.y[k] = CountOfClass(data, ret.value.x[k])
              /\ SumOf(ret.value.y) = Len(data)

\* a summary of two records of one class
C14_Witness ==
    /\ SummaryDone
    /\ Len(call.detection_data) = 2
    /\ Len(ret.value.detected_objects) = 1
    /\ ret.value.detected_objects[1][3] = 2

\* C16: every history entry's detection count is the length of its list of records.
C16_CountIsListLength ==
    \A k \in DOMAIN detection_history :
        detection_history[k].detections = Len(detection_history[k].objects)

\* a full buffer holding an entry of two records among entries of one
C16_Witness ==
    /\ Len(detection_history) = HistoryCap
    /\ \E k \in DOMAIN detection_history : Len(detection_history[k].objects) = 2
    /\ \E k \in DOMAIN detection_history : Len(detection_history[k].objects) = 1

\* C17: a successful call with no detections returns the "No objects detected"
\* summary, computes no chart, and still appends an entry, with count 0.
C17_EmptyDetections ==
    [][ (SuccessStep /\ ret'.value[1].drawn = <<>>)
          => /\ ret'.value[2] = [kind |-> "No objects detected"]
             /\ ret'.chart = [kind |-> None]
             /\ Len(detection_history') = Len(detection_history) + 1
             /\ Last(detection_history').detections = 0
             /\ Last(detection_history').objects = <<>>
      ]_vars

\* a call with no detections succeeded after a call with detections
C17_Witness ==
    /\ DetectDone
    /\ ret.kind = "return" /\ Len(ret.invoked) = 1
    /\ Len(detection_history) = 2
    /\ detection_history[1].detections > 0
    /\ detection_history[2].detections = 0

\* C18: an inference made by the submit action invokes the model with the slider
\* value (between 0.1 and 1.0) as confidence threshold and 0.45 as IoU threshold.
C18_SubmitThresholds ==
    [][ (DetectStep /\ trigger' = "click" /\ Len(ret'.invoked) = 1)
          => /\ ret'.invoked[1].conf = call'.confidence_threshold
             /\ ret'.invoked[1].conf >= 10
             /\ ret'.invoked[1].conf <= 100
             /\ ret'.invoked[1].iou = 45
      ]_vars

\* a submit with the slider at its maximum ran the model
C18_Witness ==
    /\ DetectDone
    /\ trigger = "click"
    /\ Len(ret.invoked) = 1
    /\ ret.invoked[1].conf = 100

ReadDone == call.fn = "get_detection_history"

\* C19: get_detection_history leaves the history as it is; on an empty history it
\* returns the "No detection history available." message, otherwise min(10, n) lines,
\* numbered from 1, for the most recent entries, newest first.
C19_HistoryListing ==
    /\ [][ ReadDone' => detection_history' = detection_history ]_vars
    /\ [](ReadDone =>
            LET n == Len(detection_history)
            IN  IF n = 0
                  THEN ret.value = [kind |-> "No detection history available."]
                  ELSE /\ ret.value.kind = "Detection History"
                       /\ Len(ret.value.lines) = (IF n < 10 THEN n ELSE 10)
                       /\ \A k \in DOMAIN ret.value.lines :
                             LET line == ret.value.lines[k]
                                 e == detection_history[n - k + 1]
                             IN  /\ line.n = k
                                 /\ line.timestamp = e.timestamp
                                 /\ line.model = e.model
                                 /\ line.objects = e.detections
                                 /\ line.time = e.inference_time)

\* ten lines of a full buffer, the newest entry unlike the one before it
C19_Witness ==
    /\ ReadDone
    /\ Len(detection_history) = HistoryCap
    /\ Len(ret.value.lines) = 10
    /\ ret.value.lines[1].objects = 2
    /\ ret.value.lines[2].objects = 1

\* the part a call has in a training script
CallKind(c) ==
    IF c.op = "model.train" THEN "train"
    ELSE IF c.op = "model.predict" THEN "predict"
    ELSE IF c.op = "yaml.dump" THEN "write label map"
    ELSE IF c.op = "model.val"
      THEN (IF c.args.name = "detect_test_val" THEN "test validation" ELSE "validate")
    ELSE "other"

IsTrainingCall(c) == CallKind(c) # "other"
IsDump(c) == c.op = "yaml.dump"

KindsOf(calls) == [k \in DOMAIN calls |-> CallKind(calls[k])]

IsPrefix(a, b) == Len(a) <= Len(b) /\ \A k \in DOMAIN a : a[k] = b[k]

FixedOrder == <<"train", "validate", "predict", "write label map", "test validation">>

\* C15: each script makes its training calls in the order train, validate, predict,
\* write test_data.yaml, validate on the test set, and when the test validation starts
\* the file is closed and holds the whole label map the script dumped.
C15_FixedOrderFileClosed ==
    /\ [](\A s \in Scripts :
            LET kinds == KindsOf(SelectSeq(external[s], IsTrainingCall))
            IN  /\ IsPrefix(kinds, FixedOrder)
                /\ script_pc[s] = Done(s) => kinds = FixedOrder)
    /\ [][ \A s \in Scripts :
             (/\ external'[s] # external[s]
              /\ CallKind(external'[s][Len(external'[s])]) = "test validation")
               => /\ test_yaml_file.state = "closed"
                  /\ Len(SelectSeq(external[s], IsDump)) = 1
                  /\ test_yaml_file.content = SelectSeq(external[s], IsDump)[1].args
                  /\ test_yaml_file.content[1].nc = 7
                  /\ test_yaml_file' = test_yaml_file
      ]_vars

\* both scripts ran to their end, one after the other
C15_Witness ==
    /\ \A s \in Scripts : script_pc[s] = Done(s)
    /\ test_yaml_file.state = "closed"
    /\ Len(test_yaml_file.content) = 1

IsComparedCall(c) == c.op \in {"YOLO", "open"} \/ IsTrainingCall(c)

SameArgs(x, y) == DOMAIN x = DOMAIN y /\ \A k \in DOMAIN x : x[k] = y[k]

SameOn(keys, x, y) ==
    \A k \in keys : k \in DOMAIN x /\ k \in DOMAIN y /\ x[k] = y[k]

DumpedLabelMaps(s) ==
    {external[s][k].args[1] : k \in {j \in DOMAIN external[s] : IsDump(external[s][j])}}

\* C21: the label map either script writes has nc = 7 and 7 names, and names every
\* class id below nc as the application names a detection of that class id.
C21_LabelMapIsAppClasses ==
    \A s \in Scripts :
        /\ \A m \in DumpedLabelMaps(s) :
              /\ m.nc = 7
              /\ Len(m.names) = 7
              /\ Len(UNDERWATER_CLASSES) = 7
              /\ \A class_id \in 0..(m.nc - 1) : m.names[class_id + 1] = ClassName(class_id)
        /\ (script_pc[s] = Done(s) /\ test_yaml_file.content # <<>>)
              => test_yaml_file.content[1] \in DumpedLabelMaps(s)

\* each script has written its label map, and the file holds the one written last
C21_Witness ==
    /\ \A s \in Scripts : DumpedLabelMaps(s) # {}
    /\ test_yaml_file.state = "closed"
    /\ test_yaml_file.content # <<>>
    /\ test_yaml_file.content[1].names[1] = "fish"

\* C23: once startup has completed the names in available_models are exactly the keys
\* of models, and a submit, whose model is a choice of the selector, never returns
\* "Model ... not available".
C23_SelectorChoiceAvailable ==
    /\ [](pc = "ready" =>
            /\ Range(available_models) = DOMAIN models
            /\ Cardinality(DOMAIN models) = Len(available_models)
            /\ available_models # <<>>)
    /\ [][ (DetectStep /\ trigger' = "click")
             => /\ call'.model_choice \in DOMAIN models
                /\ ret'.kind = "return" => ret'.value[2].kind # "Model not available"
      ]_vars

\* a submit ran the only model that loaded at startup
C23_Witness ==
    /\ DetectDone
    /\ trigger = "click"
    /\ Len(ret.invoked) = 1
    /\ Len(available_models) = 1
    /\ call.model_choice = "YOLOv8s"

AllReturned == \A t \in Threads : threads[t] = "idle"

\* C22: with invocations interleaved statement by statement, the history has at most
\* 50 entries once all invocations have returned, and an entry is only evicted from a
\* buffer of more than 50 entries.
C22_InterleavedEviction ==
    /\ [](AllReturned => Len(detection_history) <= 50)
    /\ [][ Len(detection_history') < Len(detection_history)
             => Len(detection_history) > 50 ]_vars
====
